---- MODULE Spec2Model ----
(***************************************************************************)
(* The Azure DevOps connectors of backend/onyx/connectors: the batcher,    *)
(* the document normalizers and the generator bodies of the four           *)
(* connector classes, one action per pull of a generator.                  *)
(*                                                                         *)
(* Strings are sequences of tokens; "/" , "." and ":" are tokens of their  *)
(* own, so that joining, splitting and prefix removal are computed.        *)
(***************************************************************************)
EXTENDS Integers, Sequences, FiniteSets, TLC

VARIABLES
    batcher,      \* the frame of one _batch_azuredevops_objects generator
    conn,         \* the connector class of the object under test
    cfg,          \* its constructor arguments
    azdo_client,  \* self.azdo_client: "None" or "Connection"
    world,        \* what the server and the remote repository hold
    checkout,     \* os.path.exists(repo_path)
    call,         \* the entry point called and its arguments
    pc,           \* position of the _fetch_from_azuredevops generator
    frame,        \* its local variables
    out,          \* the elements it has yielded
    io,           \* remote, subprocess and filesystem calls, in order
    raised        \* the exception that ended it, or "None"

vars == <<batcher, conn, cfg, azdo_client, world, checkout, call, pc, frame, out, io, raised>>

connVars == <<conn, cfg, azdo_client, world, checkout, call, pc, frame, out, io, raised>>

(***************************************************************************)
(* Bounds                                                                  *)
(***************************************************************************)
MaxLen == 4        \* longest input sequence given to the batcher alone
MaxBatch == 2      \* largest batch_size
MaxFiles == 3      \* most files in the working copy
MaxPRs == 2        \* most pull requests on the server
MaxItems == 3      \* most work items on the server
MaxTick == 3       \* start, end and change times are 0..MaxTick half days
MaxDays == 2       \* largest configured number_days
MaxRuns == 2       \* most normalizations of one entity
MaxEdits == 1      \* most edits of an entity between two normalizations

None == "None"

(***************************************************************************)
(* Sequence helpers                                                        *)
(***************************************************************************)
Min(a, b) == IF a <= b THEN a ELSE b

Take(s, n) == SubSeq(s, 1, Min(n, Len(s)))

Drop(s, n) == SubSeq(s, Min(n, Len(s)) + 1, Len(s))

RECURSIVE Flatten(_)
Flatten(ss) == IF ss = <<>> THEN <<>> ELSE Head(ss) \o Flatten(Tail(ss))

SeqsUpTo(S, n) == UNION {[1..k -> S] : k \in 0..n}

Range(s) == {s[i] : i \in DOMAIN s}

RECURSIVE Filter(_, _)
\* [f for f in s if f in keep]
Filter(s, keep) ==
    IF s = <<>> THEN <<>>
    ELSE (IF Head(s) \in keep THEN <<Head(s)>> ELSE <<>>) \o Filter(Tail(s), keep)

(***************************************************************************)
(* _batch_azuredevops_objects                                              *)
(***************************************************************************)
\* a slice that loses the last item of each batch
IsliceDropsLast(it, batch_size) ==
    [taken |-> Take(it, batch_size - 1), rest |-> Drop(it, batch_size)]

\* a slice that leaves its last item in the iterator
IsliceKeepsLast(it, batch_size) ==
    [taken |-> Take(it, batch_size), rest |-> Drop(it, batch_size - 1)]

\* list(itertools.islice(it, batch_size)): the items taken and the iterator left
Islice(it, batch_size) ==
    [taken |-> Take(it, batch_size), rest |-> Drop(it, batch_size)]

RECURSIVE batch_azuredevops_objects(_, _)
\* every batch the generator yields until it returns
batch_azuredevops_objects(git_objs, batch_size) ==
    LET s == Islice(git_objs, batch_size)
    IN  IF s.taken = <<>> THEN <<>>
        ELSE <<s.taken>> \o batch_azuredevops_objects(s.rest, batch_size)

BatcherIdle == [git_objs |-> <<>>, batch_size |-> 1, it |-> <<>>,
                yielded |-> <<>>, state |-> "idle"]

Objs == {"a", "b"}

InitBatch ==
    /\ \E git_objs \in SeqsUpTo(Objs, MaxLen), batch_size \in 1..MaxBatch :
          batcher = [git_objs |-> git_objs, batch_size |-> batch_size,
                     it |-> git_objs, yielded |-> <<>>, state |-> "suspended"]
    /\ conn = None /\ cfg = None /\ azdo_client = None /\ world = None
    /\ checkout = FALSE
    /\ call = [op |-> "none"] /\ pc = "idle" /\ frame = None /\ out = <<>> /\ io = <<>>
    /\ raised = None

\* next() on the generator: one turn of the while loop, ending at the yield
BatchYield ==
    /\ batcher.state = "suspended"
    /\ LET s == Islice(batcher.it, batcher.batch_size)
       IN  /\ s.taken # <<>>
           /\ batcher' = [batcher EXCEPT !.it = s.rest,
                                         !.yielded = Append(@, s.taken)]
    /\ UNCHANGED connVars

\* next() on the generator: the slice is empty, break
BatchStop ==
    /\ batcher.state = "suspended"
    /\ Islice(batcher.it, batcher.batch_size).taken = <<>>
    /\ batcher' = [batcher EXCEPT !.state = "returned"]
    /\ UNCHANGED connVars

NextBatch == BatchYield \/ BatchStop

SpecBatch == InitBatch /\ [][NextBatch]_vars

CeilDiv(a, b) == (a + b - 1) \div b

\* C1: once the batcher has returned it has yielded ceil(L/n) batches, each of
\* n items except the last, which has L mod n items (n when L mod n = 0), and
\* the batches concatenated are the input
C1_BatchShape ==
    batcher.state = "returned" =>
        LET L == Len(batcher.git_objs)
            n == batcher.batch_size
            ys == batcher.yielded
        IN  /\ Len(ys) = CeilDiv(L, n)
            /\ \A k \in 1..Len(ys) - 1 : Len(ys[k]) = n
            /\ Len(ys) > 0 =>
                  Len(ys[Len(ys)]) = (IF L % n = 0 THEN n ELSE L % n)
            /\ Flatten(ys) = batcher.git_objs
            /\ ys = batch_azuredevops_objects(batcher.git_objs, n)

C1_Witness ==
    /\ batcher.state = "returned"
    /\ Len(batcher.yielded) >= 2
    /\ Len(batcher.git_objs) % batcher.batch_size # 0

(***************************************************************************)
(* Strings                                                                 *)
(***************************************************************************)
Max(S) == CHOOSE x \in S : \A y \in S : y <= x

\* str.lower(), token by token
LowerToken(t) ==
    CASE t = "PY" -> "py"
      [] t = "MD" -> "md"
      [] t = "README" -> "readme"
      [] t = "All" -> "all"
      [] OTHER -> t

Lower(s) == [i \in DOMAIN s |-> LowerToken(s[i])]

StartsWith(s, p) == Len(p) <= Len(s) /\ SubSeq(s, 1, Len(p)) = p

EndsWith(s, p) == Len(p) <= Len(s) /\ SubSeq(s, Len(s) - Len(p) + 1, Len(s)) = p

\* str.removeprefix
RemovePrefix(s, p) == IF StartsWith(s, p) THEN SubSeq(s, Len(p) + 1, Len(s)) ELSE s

\* os.path.splitext(file)[1]: from the last dot on; a leading dot is no extension
SplitextExt(file) ==
    LET dots == {i \in 2..Len(file) : file[i] = "."}
    IN  IF dots = {} THEN <<>> ELSE SubSeq(file, Max(dots), Len(file))

\* s.split(sep)[-1]
SplitLast(s, sep) ==
    LET seps == {i \in 1..Len(s) : s[i] = sep}
    IN  IF seps = {} THEN s ELSE SubSeq(s, Max(seps) + 1, Len(s))

\* os.path.join(root, file)
PathJoin(root, file) == root \o <<"/">> \o file

\* repo_name.replace(" ", "%20") and urllib.parse.quote on the names used here
QuoteSpaces(s) == [i \in DOMAIN s |-> IF s[i] = " " THEN "%20" ELSE s[i]]

(***************************************************************************)
(* Time: epoch seconds.  Python numbers keep their type, so that a float   *)
(* placed in a query is told from an int.                                  *)
(***************************************************************************)
SecondsPerDay == 24 * 60 * 60

HalfDay == SecondsPerDay \div 2

Ticks == 0..MaxTick

TimeOf(tick) == tick * HalfDay

\* the server's @today: midnight of the day after the last tick
Today == ((MaxTick + 2) \div 2) * SecondsPerDay

PyNone == [t |-> "NoneType"]

IsNone(x) == x.t = "NoneType"

PyInt(v) == [t |-> "int", v |-> v]

\* SecondsSinceUnixEpoch is a float
PySecs(v) == [t |-> "float", num |-> v, den |-> 1]

\* what a generator hands to its consumer: a list of Documents, or a Document
PyList(items) == [t |-> "list", items |-> items]

PyDocument(doc) == [t |-> "Document", doc |-> doc]

PyStr(s) == [t |-> "str", s |-> s]

\* x or ""
OrEmpty(x) == IF IsNone(x) THEN <<>> ELSE x.s

\* a / b of two numbers: always a float, kept as the fraction num / den
PyTrueDiv(a, b) == [t |-> "float", num |-> a, den |-> b]

\* a numeric string such as "30"
NumStr(v) == [t |-> "str", v |-> v]

\* datetime.fromtimestamp(t): a naive local datetime, as days and seconds
FromTimestamp(t) == [day |-> t \div SecondsPerDay, sec |-> t % SecondsPerDay]

\* the instant git reads back from the printed datetime
GitParseDate(d) == d.day * SecondsPerDay + d.sec

(***************************************************************************)
(* The remote repository and the working copy a clone or pull leaves       *)
(***************************************************************************)
RepoName == <<"repo">>

ProjectName == <<"proj">>

BaseUrl == <<"https", ":", "/", "/", "dev.azure.com", "/", "org">>

Destination == <<"/", "git", "/", "azuredevops">>

\* file number i of the repository: its directory, its name, its last commit
FileOf(i) ==
    [dir |-> IF i % 2 = 0 THEN <<"src">> ELSE <<>>,
     name |-> IF i = 1 THEN <<"README", ".", "md">>
              ELSE <<ToString(i), ".", IF i % 3 = 0 THEN "txt" ELSE "py">>,
     commit |-> TimeOf(i % (MaxTick + 1))]

RepoFiles(w) == [i \in 1..w.nfiles |-> FileOf(i)]

\* the path of a file relative to the root of the repository, as git prints it
RelPath(f) == IF f.dir = <<>> THEN f.name ELSE PathJoin(f.dir, f.name)

FileContent(path) == <<"text of">> \o path

\* GitRepository returned by get_repository
Repository ==
    [id |-> <<"guid">>,
     url |-> BaseUrl \o <<"/", "_apis", "/", "git", "/", "repositories", "/", "guid">>,
     name |-> RepoName,
     creation_date |-> [secs |-> 0, microsecond |-> 0]]

(***************************************************************************)
(* Documents of the code file connectors                                   *)
(***************************************************************************)
get_language_from_extension(extension) ==
    CASE extension = <<"py">> -> "Python"
      [] extension = <<"js">> -> "JavaScript"
      [] extension = <<"ts">> -> "TypeScript"
      [] extension = <<"cs">> -> "C#"
      [] extension = <<"html">> -> "HTML"
      [] extension = <<"css">> -> "CSS"
      [] extension = <<"json">> -> "JSON"
      [] extension = <<"xml">> -> "XML"
      [] extension = <<"yaml">> -> "YAML"
      [] extension = <<"yml">> -> "YAML"
      [] extension = <<"sql">> -> "SQL"
      [] extension = <<"sh">> -> "Shell"
      [] extension = <<"bash">> -> "Shell"
      [] extension = <<"ps1">> -> "PowerShell"
      [] extension = <<"bat">> -> "Batch"
      [] extension = <<"cmd">> -> "Batch"
      [] extension = <<"tf">> -> "Terraform"
      [] extension = <<"tfvars">> -> "Terraform"
      [] extension = <<"md">> -> "Markdown"
      [] OTHER -> "Unknown"

\* a converter that builds the id from the content of the file as well
convert_code_to_document_content_id(source, repo_id, repo_url, repo_name, content_string, file_path) ==
    [id |-> repo_id \o <<":">> \o repo_url \o <<":">> \o file_path \o <<":">> \o content_string,
     sections |-> <<[link |-> repo_url \o <<"?path=">> \o file_path, text |-> content_string]>>,
     source |-> source,
     semantic_identifier |-> repo_name \o <<"/">> \o file_path,
     doc_updated_at |-> "now",
     primary_owners |-> <<>>,
     metadata |-> [type |-> "CodeFile",
                   language |-> get_language_from_extension(Lower(SplitLast(file_path, "."))),
                   repo |-> repo_name]]

\* _convert_code_to_document of azuredevops_codebase and azuredevops_code;
\* source is the DocumentSource of the module
convert_code_to_document(source, repo_id, repo_url, repo_name, content_string, file_path) ==
    LET extension == Lower(SplitLast(file_path, "."))
        language == get_language_from_extension(extension)
        file_url == repo_url \o <<"?path=">> \o file_path
    IN  [id |-> repo_id \o <<":">> \o repo_url \o <<":">> \o file_path,
         sections |-> <<[link |-> file_url, text |-> content_string]>>,
         source |-> source,
         semantic_identifier |-> repo_name \o <<"/">> \o file_path,
         doc_updated_at |-> "now",
         primary_owners |-> <<>>,
         metadata |-> [type |-> "CodeFile", language |-> language, repo |-> repo_name]]

\* _convert_repo_to_document of azuredevops_code
code_convert_repo_to_document(repo_id, repo_url, repo_name, readme_content) ==
    [id |-> repo_id \o <<":">> \o repo_url,
     sections |-> <<[link |-> repo_url,
                     text |-> OrEmpty(readme_content)]>>,
     source |-> "AZUREDEVOPSCODE",
     semantic_identifier |-> repo_name,
     doc_updated_at |-> "now",
     primary_owners |-> <<>>,
     metadata |-> [type |-> "CodeRepo", repo |-> repo_name]]

\* self.extensions as __init__ stores it
StoredExtensions(c, extensions) ==
    IF c = "AzureDevopsCodeConnector"
    THEN [i \in DOMAIN extensions |->
            IF StartsWith(extensions[i], <<".">>) THEN Lower(extensions[i])
            ELSE <<".">> \o Lower(extensions[i])]
    ELSE extensions

\* get_repo_files_list: os.walk over the working copy, keeping allowed extensions
get_repo_files_list(repo_path, files, extensions) ==
    LET Root(f) == IF f.dir = <<>> THEN repo_path ELSE PathJoin(repo_path, f.dir)
        Keep(f) == SplitextExt(f.name) \in Range(extensions)
        RECURSIVE Walk(_)
        Walk(fs) ==
            IF fs = <<>> THEN <<>>
            ELSE (IF Keep(Head(fs)) THEN <<PathJoin(Root(Head(fs)), Head(fs).name)>>
                  ELSE <<>>) \o Walk(Tail(fs))
    IN  Walk(files)

\* stdout of git log --since --until --name-only --pretty=format: as a set of
\* lines, the empty line discarded
git_log_changed_files(files, since, until) ==
    {RelPath(files[i]) : i \in {j \in DOMAIN files :
        /\ GitParseDate(since) <= files[j].commit
        /\ files[j].commit <= GitParseDate(until)}}

(***************************************************************************)
(* Construction, load_credentials and the two entry points                 *)
(***************************************************************************)
Codebase == "AzureDevopsCodebaseConnector"

Code == "AzureDevopsCodeConnector"

Management == "AzureDevopsManagementConnector"

Multi == "AzureDevopsConnector"

FileConnectors == {Codebase, Code}

Connectors == {Codebase, Code, Management, Multi}

ExtensionArgs ==
    { << <<".", "py">>, <<".", "md">> >>,
      << <<"PY">> >>,
      << <<".", "py">>, <<".", "md">>, <<".", "txt">> >> }

StateFilterArgs == { <<>>, <<"All">>, <<"Active">> }

\* __init__ of each class: the attributes it stores
Configs(c) ==
    CASE c \in FileConnectors ->
            {[repo_name |-> RepoName, project_name |-> ProjectName, branch |-> <<"main">>,
              extensions |-> StoredExtensions(c, e), batch_size |-> b] :
                e \in ExtensionArgs, b \in 1..MaxBatch}
      [] c = Management ->
            {[project_name |-> ProjectName, number_days |-> d, state_filter |-> f,
              batch_size |-> b] :
                d \in {PyNone} \cup {NumStr(n) : n \in 0..MaxDays},
                f \in StateFilterArgs, b \in 1..MaxBatch}
      [] c = Multi ->
            {[project_name |-> ProjectName, repo_name |-> RepoName, batch_size |-> b,
              state_filter |-> <<"all">>, include_prs |-> p, include_workitems |-> w,
              include_code_files |-> f] :
                b \in 1..MaxBatch, p \in BOOLEAN, w \in BOOLEAN, f \in BOOLEAN}

\* what goes wrong in an invocation: a call of the given kind fails, for the
\* entity or the call number i where there are several
Fault(kind, op, i) == [kind |-> kind, op |-> op, i |-> i]

NoFault == Fault("none", "", 0)

\* what the remote side holds: files of the repository, pull requests, work
\* items; nothing goes wrong
Worlds(c) ==
    CASE c \in FileConnectors ->
            {[nfiles |-> n, nprs |-> 0, nitems |-> 0, fault |-> NoFault] :
                n \in 0..MaxFiles}
      [] c = Management ->
            {[nfiles |-> 0, nprs |-> 0, nitems |-> n, fault |-> NoFault] :
                n \in 0..MaxItems}
      [] c = Multi ->
            {[nfiles |-> n, nprs |-> p, nitems |-> k, fault |-> NoFault] :
                n \in 0..MaxFiles, p \in 0..MaxPRs, k \in 0..MaxItems}

Init ==
    /\ batcher = BatcherIdle
    /\ conn \in Connectors
    /\ cfg \in Configs(conn)
    /\ world \in Worlds(conn)
    /\ checkout \in (IF conn \in FileConnectors THEN BOOLEAN ELSE {FALSE})
    /\ azdo_client = None
    /\ call = [op |-> "none"]
    /\ pc = "idle"
    /\ frame = None
    /\ out = <<>>
    /\ io = <<>>
    /\ raised = None

load_credentials ==
    /\ pc = "idle"
    /\ azdo_client = None
    /\ azdo_client' = "Connection"
    /\ UNCHANGED <<batcher, conn, cfg, world, checkout, call, pc, frame, out, io, raised>>

\* calling a generator function runs none of its body: that waits for the first pull
load_from_state ==
    /\ pc = "idle"
    /\ call' = [op |-> "load_from_state", start |-> PyNone, end |-> PyNone]
    /\ pc' = "start"
    /\ UNCHANGED <<batcher, conn, cfg, azdo_client, world, checkout, frame, out, io, raised>>

poll_source ==
    /\ pc = "idle"
    /\ \E s \in Ticks, e \in Ticks :
          /\ s <= e
          /\ call' = [op |-> "poll_source", start |-> PySecs(TimeOf(s)),
                                            end |-> PySecs(TimeOf(e))]
    /\ pc' = "start"
    /\ UNCHANGED <<batcher, conn, cfg, azdo_client, world, checkout, frame, out, io, raised>>

Remote(op) == [kind |-> "remote", op |-> op]

Subprocess(op) == [kind |-> "subprocess", op |-> op]

Fs(op) == [kind |-> "fs", op |-> op]

\* the credential check placed after the first use of the client
RaiseMissingCredentialLate ==
    /\ raised' = "ConnectorMissingCredentialError"
    /\ pc' = "raised"
    /\ io' = Append(io, Remote("get_git_client"))
    /\ UNCHANGED <<batcher, conn, cfg, azdo_client, world, checkout, call, frame, out>>

\* raise ConnectorMissingCredentialError("AzureDevops") at the head of the body
RaiseMissingCredential ==
    /\ raised' = "ConnectorMissingCredentialError"
    /\ pc' = "raised"
    /\ UNCHANGED <<batcher, conn, cfg, azdo_client, world, checkout, call, frame, out, io>>

(***************************************************************************)
(* AzureDevopsCodebaseConnector and AzureDevopsCodeConnector               *)
(***************************************************************************)
RepoPath == Destination \o <<"/">> \o cfg.repo_name

RepoUrl == BaseUrl \o <<"/">> \o cfg.project_name \o <<"/", "_git", "/">>
               \o QuoteSpaces(cfg.repo_name)

\* os.path.join(root, file) for a file of the working copy
AbsPath(f) ==
    PathJoin(IF f.dir = <<>> THEN RepoPath ELSE PathJoin(RepoPath, f.dir), f.name)

\* os.path.exists(repo_path) and what it returned
FsExists(result) == [kind |-> "fs", op |-> "exists", result |-> result]

\* a sync that pulls after it has cloned
SyncWorkingCopyClonesAndPulls ==
    << Remote("get_git_client"), Remote("get_repository"),
       Subprocess("git config"), Subprocess("git credential approve"),
       Fs("makedirs"), FsExists(checkout),
       Subprocess("git clone"), Subprocess("git pull"),
       Fs("walk") >>

\* from get_git_client to the clone or pull and the walk of the working copy
SyncWorkingCopy ==
    << Remote("get_git_client"), Remote("get_repository"),
       Subprocess("git config"), Subprocess("git credential approve"),
       Fs("makedirs"), FsExists(checkout),
       IF checkout THEN Subprocess("git pull") ELSE Subprocess("git clone"),
       Fs("walk") >>

\* subprocess.run(..., check=True) of the git command exits non-zero
GitFails(op) == world.fault.kind = "git" /\ world.fault.op = op

\* open(item) raises OSError
Unreadable(item) ==
    world.fault.kind = "open" /\ item = AbsPath(FileOf(world.fault.i))

\* the exception leaves the generator: the calls made so far stay made, the
\* batches handed over stay handed over
Raise(exception, calls, exists) ==
    /\ raised' = exception
    /\ pc' = "raised"
    /\ io' = io \o calls
    /\ checkout' = exists
    /\ UNCHANGED <<batcher, conn, cfg, azdo_client, world, call, frame, out>>

\* the clone or pull exits non-zero: CalledProcessError before the walk
RaiseSyncFailed ==
    Raise("CalledProcessError", SubSeq(SyncWorkingCopy, 1, Len(SyncWorkingCopy) - 1),
          checkout)

\* git log exits non-zero: CalledProcessError before any file is read
RaiseLogFailed ==
    Raise("CalledProcessError", SyncWorkingCopy \o <<Subprocess("git log")>>, TRUE)

\* a filter that keeps every file, changed or not
ChangedOnlyKeepsAll(file_list) == file_list

\* file_list after the git log filter
ChangedOnly(file_list) ==
    Filter(file_list, git_log_changed_files(RepoFiles(world),
                                            FromTimestamp(call.start.num),
                                            FromTimestamp(call.end.num)))

\* the items of a batch up to and with the first that cannot be opened
UpToUnreadable(taken) ==
    LET bad == {i \in DOMAIN taken : Unreadable(taken[i])}
    IN  IF bad = {} THEN taken
        ELSE SubSeq(taken, 1, CHOOSE i \in bad : \A j \in bad : i <= j)

\* process_files that yields the batch it built also when there was none to build
process_files_yields_empty(it, source) ==
    LET s == Islice(it, cfg.batch_size)
        opened == UpToUnreadable(s.taken)
        failed == \E i \in DOMAIN s.taken : Unreadable(s.taken[i])
        code_doc_batch ==
            [i \in DOMAIN s.taken |->
                convert_code_to_document(source, Repository.id, RepoUrl, cfg.repo_name,
                    FileContent(s.taken[i]), RemovePrefix(s.taken[i], RepoPath))]
    IN  [returned |-> s.taken = <<>>,
         raised |-> IF failed THEN "OSError" ELSE None,
         it |-> s.rest,
         io |-> [i \in DOMAIN opened |-> Fs("open")],
         yielded |-> IF failed THEN <<>> ELSE <<PyList(code_doc_batch)>>]

\* process_files that reads the files of the next batch before it yields the
\* batch it has built
process_files_reads_ahead(it, source) ==
    LET s == Islice(it, cfg.batch_size)
        ahead == Take(it, 2 * cfg.batch_size)
        opened == UpToUnreadable(ahead)
        failed == \E i \in DOMAIN ahead : Unreadable(ahead[i])
        code_doc_batch ==
            [i \in DOMAIN s.taken |->
                convert_code_to_document(source, Repository.id, RepoUrl, cfg.repo_name,
                    FileContent(s.taken[i]), RemovePrefix(s.taken[i], RepoPath))]
    IN  [returned |-> s.taken = <<>>,
         raised |-> IF failed THEN "OSError" ELSE None,
         it |-> s.rest,
         io |-> [i \in DOMAIN opened |-> Fs("open")],
         yielded |-> IF failed \/ code_doc_batch = <<>> THEN <<>>
                     ELSE <<PyList(code_doc_batch)>>]

\* process_files from where it is suspended to its next yield, its return or
\* the OSError of an open
process_files(it, source) ==
    LET s == Islice(it, cfg.batch_size)
        opened == UpToUnreadable(s.taken)
        failed == \E i \in DOMAIN s.taken : Unreadable(s.taken[i])
        code_doc_batch ==
            [i \in DOMAIN s.taken |->
                convert_code_to_document(source, Repository.id, RepoUrl, cfg.repo_name,
                    FileContent(s.taken[i]), RemovePrefix(s.taken[i], RepoPath))]
    IN  [returned |-> s.taken = <<>>,
         raised |-> IF failed THEN "OSError" ELSE None,
         it |-> s.rest,
         io |-> [i \in DOMAIN opened |-> Fs("open")],
         yielded |-> IF failed \/ code_doc_batch = <<>> THEN <<>>
                     ELSE <<PyList(code_doc_batch)>>]

\* the window filter of AzureDevopsCodebaseConnector applies
CodebaseWindowed ==
    checkout /\ ~IsNone(call.start) /\ ~IsNone(call.end)

\* what a pull of process_files leaves behind
FilesStep(r, calls) ==
    /\ io' = io \o calls \o r.io
    /\ checkout' = TRUE
    /\ frame' = [it |-> r.it]
    /\ out' = out \o r.yielded
    /\ raised' = r.raised
    /\ pc' = IF r.raised # None THEN "raised"
             ELSE IF r.returned THEN "done" ELSE "files"
    /\ UNCHANGED <<batcher, conn, cfg, azdo_client, world, call>>

\* first pull of AzureDevopsCodebaseConnector._fetch_from_azuredevops
CodebaseStart ==
    /\ conn = Codebase
    /\ pc = "start"
    /\ IF azdo_client = None THEN RaiseMissingCredential
       ELSE IF GitFails("sync") THEN RaiseSyncFailed
       ELSE IF CodebaseWindowed /\ GitFails("git log") THEN RaiseLogFailed
       ELSE LET all == get_repo_files_list(RepoPath, RepoFiles(world), cfg.extensions)
                file_list == IF CodebaseWindowed THEN ChangedOnly(all) ELSE all
                r == process_files(file_list, "AZUREDEVOPSCODEBASE")
            IN  FilesStep(r, SyncWorkingCopy
                            \o (IF CodebaseWindowed THEN <<Subprocess("git log")>> ELSE <<>>))

\* a later pull of either code file connector: process_files goes on
FilesResume ==
    /\ conn \in FileConnectors
    /\ pc = "files"
    /\ FilesStep(process_files(frame.it,
                    IF conn = Code THEN "AZUREDEVOPSCODE" ELSE "AZUREDEVOPSCODEBASE"),
                 <<>>)

\* start > 0.1
GreaterThanTenth(x) == 10 * x.num > x.den

\* first pull of AzureDevopsCodeConnector._fetch_from_azuredevops
CodeStart ==
    /\ conn = Code
    /\ pc = "start"
    /\ IF azdo_client = None THEN RaiseMissingCredential
       ELSE IF GitFails("sync") THEN RaiseSyncFailed
       ELSE IF IsNone(call.start)
       THEN \* None > 0.1 raises TypeError, after the clone or pull and the walk
            Raise("TypeError", SyncWorkingCopy, TRUE)
       ELSE IF GreaterThanTenth(call.start) /\ GitFails("git log") THEN RaiseLogFailed
       ELSE LET all == get_repo_files_list(RepoPath, RepoFiles(world), cfg.extensions)
                windowed == GreaterThanTenth(call.start)
                file_list == IF windowed THEN ChangedOnly(all) ELSE all
                readmes == SelectSeq(file_list,
                              LAMBDA f : EndsWith(Lower(f), <<"readme", ".", "md">>))
                readme_content == IF readmes = <<>> THEN PyNone
                                  ELSE PyStr(FileContent(Head(readmes)))
                repo_doc == code_convert_repo_to_document(Repository.id, Repository.url,
                                cfg.repo_name, readme_content)
                calls == SyncWorkingCopy
                            \o (IF windowed THEN <<Subprocess("git log")>> ELSE <<>>)
                            \o (IF readmes = <<>> THEN <<>> ELSE <<Fs("open")>>)
            IN  IF readmes # <<>> /\ Unreadable(Head(readmes))
                THEN \* process_repo cannot open the README
                     Raise("OSError", calls, TRUE)
                ELSE /\ io' = io \o calls
                     /\ checkout' = TRUE
                     /\ frame' = [it |-> file_list]
                     \* yield from a list hands over its elements: the Document itself
                     /\ out' = Append(out, PyDocument(repo_doc))
                     /\ pc' = "files"
                     /\ UNCHANGED <<batcher, conn, cfg, azdo_client, world, call, raised>>

(***************************************************************************)
(* Work items and pull requests the server holds                           *)
(***************************************************************************)
\* a timestamp string: "plain" is %Y-%m-%dT%H:%M:%SZ, "fractional" has .%f
TimestampStr(secs, shape, frac) ==
    [t |-> "str", shape |-> shape, secs |-> secs, frac |-> frac]

FieldsGet(fields, key) == IF key \in DOMAIN fields THEN fields[key] ELSE PyNone

\* work item i, the newest first; an unassigned item has no System.AssignedTo
WorkItemOf(i) ==
    [id |-> i,
     fields |->
        ("System.ChangedDate" :>
            TimestampStr(TimeOf((MaxTick + 1 - (i % (MaxTick + 1))) % (MaxTick + 1)),
                         IF i % 2 = 0 THEN "plain" ELSE "fractional",
                         IF i % 2 = 0 THEN 0 ELSE 123456))
        @@ ("System.State" :> PyStr(IF i % 2 = 1 THEN <<"Active">> ELSE <<"New">>))
        @@ ("System.WorkItemType" :> PyStr(<<"Bug">>))
        @@ ("System.Title" :> PyStr(<<"title", ToString(i)>>))
        @@ ("System.Description" :> PyStr(<<"description", ToString(i)>>))
        @@ ("System.CreatedBy" :> [t |-> "dict", displayName |-> PyStr(<<"creator">>)])
        @@ (IF i % 2 = 1
            THEN ("System.AssignedTo" :> [t |-> "dict", displayName |-> PyStr(<<"owner">>)])
            ELSE <<>>)]

ChangedSecs(work_item) == work_item.fields["System.ChangedDate"].secs

\* [System.ChangedDate] > @today - offset, offset a Python number of days: the
\* seconds elapsed since the change, in days, are fewer than offset (the
\* fraction num / den is compared with the common factor of a day taken out)
ChangedAfterTodayMinus(work_item, offset) ==
    LET elapsed == Today - ChangedSecs(work_item)
    IN  IF offset.t = "int" THEN elapsed < offset.v * SecondsPerDay
        ELSE IF offset.den % SecondsPerDay = 0
        THEN elapsed * (offset.den \div SecondsPerDay) < offset.num
        ELSE elapsed * offset.den < offset.num * SecondsPerDay

\* [System.State] <> '' or [System.State] IN (...), or no predicate on the state
StateMatches(work_item, query_state) ==
    LET state == FieldsGet(work_item.fields, "System.State")
    IN  CASE query_state.op = "any" -> TRUE
          [] query_state.op = "<> ''" -> ~IsNone(state) /\ state.s # <<>>
          [] query_state.op = "IN" -> ~IsNone(state) /\ state.s \in query_state.states

\* query_by_wiql: the ids the server finds, newest first
query_by_wiql(query) ==
    LET hit(i) == /\ ChangedAfterTodayMinus(WorkItemOf(i), query.changed_after_today_minus)
                  /\ StateMatches(WorkItemOf(i), query.state)
    IN  SelectSeq([i \in 1..world.nitems |-> i], hit)

\* System.ChangedDate as the server may hand it over: in one of the two known
\* formats, in another format, or not at all
DateShapes == {"plain", "fractional", "other", "absent"}

\* work item i with its System.ChangedDate in the given shape
WorkItemWithDate(i, shape) ==
    LET w == WorkItemOf(i)
        date == w.fields["System.ChangedDate"]
    IN  IF shape = "absent"
        THEN [w EXCEPT !.fields = [k \in DOMAIN w.fields \ {"System.ChangedDate"} |->
                                        w.fields[k]]]
        ELSE [w EXCEPT !.fields["System.ChangedDate"] =
                            TimestampStr(date.secs, shape,
                                         IF shape = "plain" THEN 0 ELSE 123456)]

\* a remote call of the client fails
RemoteFails(op) == world.fault.kind = "remote" /\ world.fault.op = op

\* the work item as the server hands it over in this invocation
Served(i) ==
    IF world.fault.kind = "timestamp" /\ world.fault.i = i
    THEN WorkItemWithDate(i, "other")
    ELSE WorkItemOf(i)

\* get_work_items(batch_ids, expand="All"): the work items of the ids, without
\* the one the server leaves out
get_work_items(batch_ids) ==
    LET found == SelectSeq(batch_ids,
                    LAMBDA id : ~(world.fault.kind = "omitted" /\ world.fault.i = id))
    IN  [k \in DOMAIN found |-> Served(found[k])]

\* get_work_items calls made so far in this invocation
FetchesMade(done) ==
    Len(SelectSeq(io \o done, LAMBDA e : e.op = "get_work_items"))

PullRequestOf(i) ==
    [url |-> BaseUrl \o <<"/", "pullRequests", "/", ToString(i)>>,
     title |-> PyStr(<<"pr", ToString(i)>>),
     description |-> PyStr(<<"about", ToString(i)>>),
     status |-> "active",
     creation_date |-> [secs |-> TimeOf(i % (MaxTick + 1)), microsecond |-> 0],
     created_by |-> [display_name |-> PyStr(<<"author">>)]]

(***************************************************************************)
(* Documents of work items                                                 *)
(***************************************************************************)
\* format_date: the datetime parsed, or the exception raised
format_date(date) ==
    IF IsNone(date) THEN [raised |-> "TypeError"]
    ELSE IF date.shape = "plain"
    THEN [raised |-> None, t |-> "datetime", secs |-> date.secs, microsecond |-> 0]
    ELSE IF date.shape = "fractional"
    THEN [raised |-> None, t |-> "datetime", secs |-> date.secs, microsecond |-> date.frac]
    ELSE [raised |-> "ValueError"]

WorkItemUrl(work_item) ==
    BaseUrl \o <<"/", "_workItems", "/", "edit", "/", ToString(work_item.id)>>

MetadataKeys ==
    ("state" :> "System.State") @@ ("type" :> "System.WorkItemType")
    @@ ("iteration" :> "System.IterationPath") @@ ("area" :> "System.AreaPath")
    @@ ("priority" :> "Microsoft.VSTS.Common.Priority") @@ ("tags" :> "System.Tags")
    @@ ("assigned_to" :> "System.AssignedTo")

\* a converter that fills every metadata key, with None for a field not given
management_convert_workitem_to_document_null_keys(work_item) ==
    LET fields == work_item.fields
        work_item_url == WorkItemUrl(work_item)
        changed_date == format_date(FieldsGet(fields, "System.ChangedDate"))
        created_by == FieldsGet(fields, "System.CreatedBy")
        assigned_to == FieldsGet(fields, "System.AssignedTo")
    IN  IF changed_date.raised # None THEN [raised |-> changed_date.raised]
        ELSE IF IsNone(created_by) THEN [raised |-> "TypeError"]
        ELSE IF "displayName" \notin DOMAIN created_by THEN [raised |-> "KeyError"]
        ELSE [raised |-> None,
              doc |-> [id |-> work_item_url,
                       sections |-> <<[link |-> work_item_url,
                                       text |-> OrEmpty(FieldsGet(fields, "System.Description"))]>>,
                       source |-> "AZUREDEVOPSMANAGEMENT",
                       semantic_identifier |-> <<"AZDOWorkItem", ":", ToString(work_item.id)>>,
                       doc_updated_at |-> [secs |-> changed_date.secs,
                                           microsecond |-> changed_date.microsecond,
                                           tzinfo |-> "utc"],
                       primary_owners |-> <<created_by.displayName>>,
                       metadata |-> [k \in DOMAIN MetadataKeys |->
                            IF k = "assigned_to"
                            THEN (IF IsNone(assigned_to) THEN PyNone
                                  ELSE assigned_to.displayName)
                            ELSE FieldsGet(fields, MetadataKeys[k])]]]

\* _convert_workitem_to_document of azuredevops_management
management_convert_workitem_to_document(work_item) ==
    LET fields == work_item.fields
        work_item_url == WorkItemUrl(work_item)
        changed_date == format_date(FieldsGet(fields, "System.ChangedDate"))
        created_by == FieldsGet(fields, "System.CreatedBy")
        present == {k \in DOMAIN MetadataKeys : ~IsNone(FieldsGet(fields, MetadataKeys[k]))}
        Section(key) == [link |-> work_item_url, text |-> OrEmpty(FieldsGet(fields, key))]
    IN  IF changed_date.raised # None THEN [raised |-> changed_date.raised]
        ELSE IF IsNone(created_by) THEN [raised |-> "TypeError"]
        ELSE IF "displayName" \notin DOMAIN created_by THEN [raised |-> "KeyError"]
        ELSE [raised |-> None,
              doc |-> [id |-> work_item_url,
                       sections |-> << Section("System.Description"),
                                       Section("Microsoft.VSTS.TCM.SystemInfo"),
                                       Section("Microsoft.VSTS.Common.AcceptanceCriteria") >>,
                       source |-> "AZUREDEVOPSMANAGEMENT",
                       semantic_identifier |-> <<"AZDOWorkItem", ":", ToString(work_item.id)>>,
                       doc_updated_at |-> [secs |-> changed_date.secs,
                                           microsecond |-> changed_date.microsecond,
                                           tzinfo |-> "utc"],
                       primary_owners |-> <<created_by.displayName>>,
                       metadata |-> [k \in present |->
                            IF k = "assigned_to"
                            THEN fields[MetadataKeys[k]].displayName
                            ELSE fields[MetadataKeys[k]]]]]

\* _convert_workitem_to_document of azuredevops: format_date returns a datetime,
\* and datetime.strptime of a datetime raises TypeError
multi_convert_workitem_to_document(work_item) ==
    LET changed_date == format_date(FieldsGet(work_item.fields, "System.ChangedDate"))
    IN  IF changed_date.raised # None THEN [raised |-> changed_date.raised]
        ELSE [raised |-> "TypeError"]

\* the documents of a batch, or the first exception a conversion raises
ConvertAll(results) ==
    LET bad == {i \in DOMAIN results : results[i].raised # None}
    IN  IF bad = {} THEN [raised |-> None, docs |-> [i \in DOMAIN results |-> results[i].doc]]
        ELSE [raised |-> results[CHOOSE i \in bad : \A j \in bad : i <= j].raised]

(***************************************************************************)
(* AzureDevopsManagementConnector                                          *)
(***************************************************************************)
\* int(self.number_days)
IntOf(x) == PyInt(x.v)

\* query_length of _fetch_from_azuredevops
QueryLength ==
    IF IsNone(call.start) /\ IsNone(call.end)
    THEN (IF ~IsNone(cfg.number_days) THEN IntOf(cfg.number_days) ELSE PyInt(0))
    ELSE PyTrueDiv(call.end.num - call.start.num, SecondsPerDay)

\* query_state of _fetch_from_azuredevops
QueryState ==
    IF Len(cfg.state_filter) = 0 THEN [op |-> "<> ''"]
    ELSE IF <<"all">> \in {Lower(<<cfg.state_filter[i]>>) : i \in DOMAIN cfg.state_filter}
    THEN [op |-> "<> ''"]
    ELSE [op |-> "IN", states |-> {<<cfg.state_filter[i]>> : i \in DOMAIN cfg.state_filter}]

ManagementQuery ==
    [project |-> cfg.project_name,
     changed_after_today_minus |-> QueryLength,
     state |-> QueryState]

WiqlCall(query) == [kind |-> "remote", op |-> "query_by_wiql", query |-> query]

FetchCall(batch_ids) == [kind |-> "remote", op |-> "get_work_items", ids |-> batch_ids]

RECURSIVE ManagementRun(_, _, _)
\* the two loops of _fetch_from_azuredevops from where they are suspended to the
\* next yield, exception or return: ids are the ids not yet sliced, it the
\* batcher's iterator over the work items fetched last
ManagementRun(ids, it, done) ==
    LET s == Islice(it, cfg.batch_size)
        c == ConvertAll([i \in DOMAIN s.taken |->
                            management_convert_workitem_to_document(s.taken[i])])
    IN  IF s.taken # <<>>
        THEN IF c.raised # None
             THEN [pc |-> "raised", raised |-> c.raised, io |-> done, yielded |-> <<>>,
                   ids |-> ids, it |-> s.rest]
             ELSE [pc |-> "workitems", raised |-> None, io |-> done,
                   yielded |-> <<PyList(c.docs)>>, ids |-> ids, it |-> s.rest]
        ELSE IF ids = <<>>
        THEN [pc |-> "done", raised |-> None, io |-> done, yielded |-> <<>>,
              ids |-> ids, it |-> <<>>]
        ELSE LET batch_ids == Take(ids, cfg.batch_size)
                 calls == Append(done, FetchCall(batch_ids))
             IN  IF RemoteFails("get_work_items") /\ world.fault.i = FetchesMade(calls)
                 THEN [pc |-> "raised", raised |-> "AzureDevOpsServiceError", io |-> calls,
                       yielded |-> <<>>, ids |-> Drop(ids, cfg.batch_size), it |-> <<>>]
                 ELSE ManagementRun(Drop(ids, cfg.batch_size), get_work_items(batch_ids),
                                    calls)

ManagementStep(r) ==
    /\ io' = io \o r.io
    /\ out' = out \o r.yielded
    /\ frame' = [ids |-> r.ids, it |-> r.it]
    /\ pc' = r.pc
    /\ raised' = r.raised

\* first pull of AzureDevopsManagementConnector._fetch_from_azuredevops
ManagementStart ==
    /\ conn = Management
    /\ pc = "start"
    /\ IF azdo_client = None THEN RaiseMissingCredential
       ELSE LET query == ManagementQuery
                work_item_ids == query_by_wiql(query)
                calls == <<Remote("get_work_item_tracking_client"), WiqlCall(query)>>
                r == ManagementRun(work_item_ids, <<>>, calls)
            IN  IF RemoteFails("query_by_wiql")
                THEN Raise("AzureDevOpsServiceError", calls, checkout)
                ELSE /\ ManagementStep(r)
                     /\ UNCHANGED <<batcher, conn, cfg, azdo_client, world, checkout, call>>

\* a later pull
ManagementResume ==
    /\ conn = Management
    /\ pc = "workitems"
    /\ ManagementStep(ManagementRun(frame.ids, frame.it, <<>>))
    /\ UNCHANGED <<batcher, conn, cfg, azdo_client, world, checkout, call>>

(***************************************************************************)
(* AzureDevopsConnector                                                    *)
(***************************************************************************)
FetchCap == 200

FixedWindowDays == 180

multi_convert_repo_to_document(repo) ==
    [id |-> repo.id,
     sections |-> <<[link |-> repo.url, text |-> repo.name]>>,
     source |-> "AZUREDEVOPS",
     semantic_identifier |-> repo.name,
     doc_updated_at |-> [secs |-> repo.creation_date.secs,
                         microsecond |-> repo.creation_date.microsecond,
                         tzinfo |-> "utc"],
     primary_owners |-> <<>>,
     metadata |-> [type |-> "Repository"]]

multi_convert_pull_request_to_document(pr) ==
    [id |-> pr.url,
     sections |-> <<[link |-> pr.url, text |-> OrEmpty(pr.description)]>>,
     source |-> "AZUREDEVOPS",
     semantic_identifier |-> pr.title,
     doc_updated_at |-> [secs |-> pr.creation_date.secs,
                         microsecond |-> pr.creation_date.microsecond,
                         tzinfo |-> "utc"],
     primary_owners |-> <<pr.created_by.display_name>>,
     metadata |-> [state |-> pr.status, type |-> "PullRequest"]]

multi_convert_code_to_document(repo_id, file, repo_url, project_name) ==
    LET file_url == repo_url \o <<"/", "_git", "/">> \o project_name
                        \o <<"?path=">> \o file.path \o <<"&version=GBmaster">>
    IN  [id |-> repo_id \o <<":">> \o file.path,
         sections |-> <<[link |-> file_url, text |-> file.content]>>,
         source |-> "AZURE_DEVOPS",
         semantic_identifier |-> SplitLast(file.path, "/"),
         doc_updated_at |-> "now",
         primary_owners |-> <<>>,
         metadata |-> [type |-> "CodeFile"]]

\* get_items(scope_path="/", recursion_level="full"): the root folder, the
\* folders under it and the files
get_items ==
    LET files == RepoFiles(world)
        Folder(path) == [path |-> path, is_folder |-> TRUE]
        Item(f) == [path |-> <<"/">> \o RelPath(f), is_folder |-> FALSE]
    IN  <<Folder(<<"/">>)>>
        \o (IF \E i \in DOMAIN files : files[i].dir # <<>>
            THEN <<Folder(<<"/", "src">>)>> ELSE <<>>)
        \o [i \in DOMAIN files |-> Item(files[i])]

\* get_item(path=item.path, include_content=True)
get_item(item) ==
    [path |-> item.path,
     content |-> IF item.is_folder THEN PyNone ELSE PyStr(FileContent(item.path))]

MultiQuery ==
    [project |-> cfg.project_name,
     changed_after_today_minus |-> PyInt(FixedWindowDays),
     state |-> [op |-> "any"]]

RECURSIVE FetchCalls(_)
\* the get_work_items calls of the loop over slices of 200 ids
FetchCalls(ids) ==
    IF ids = <<>> THEN <<>>
    ELSE <<FetchCall(Take(ids, FetchCap))>> \o FetchCalls(Drop(ids, FetchCap))

\* the code segment is under "if True:", whatever include_code_files is
IncludeCode == TRUE

IncludePrs == cfg.include_prs

\* a work item segment that runs whatever include_workitems is
IncludeWorkitemsAlways == TRUE

IncludeWorkitems == cfg.include_workitems

\* the segments in another order: pull requests, then code, then work items
StageAfterPrsFirst(at) ==
    CASE at = "repo" -> "pr_gate"
      [] at = "prs" -> "code_gate"
      [] at = "code" -> "wi_gate"

\* the segment the body goes on with after the yield of the repository
\* Document, after the loop over the items and after the loop over the pull
\* requests
StageAfter(at) ==
    CASE at = "repo" -> "code_gate"
      [] at = "code" -> "pr_gate"
      [] at = "prs" -> "wi_gate"

RECURSIVE MultiRun(_, _, _)
\* _fetch_from_azuredevops from where it is suspended to the next yield,
\* exception or return
MultiRun(at, it, done) ==
    LET s == Islice(it, cfg.batch_size)
        Suspend(where, batch, calls) ==
            [pc |-> where, raised |-> None, io |-> done \o calls,
             yielded |-> <<PyList(batch)>>, it |-> s.rest]
        Fail(calls) ==
            [pc |-> "raised", raised |-> "AzureDevOpsServiceError", io |-> done \o calls,
             yielded |-> <<>>, it |-> s.rest]
        \* the items of the batch up to and with the one whose get_item fails
        bad == {i \in DOMAIN s.taken :
                    /\ world.fault.kind = "get_item"
                    /\ world.fault.i \in DOMAIN get_items
                    /\ s.taken[i] = get_items[world.fault.i]}
        got == IF bad = {} THEN s.taken
               ELSE SubSeq(s.taken, 1, CHOOSE i \in bad : \A j \in bad : i <= j)
    IN  CASE at = "repo" -> MultiRun(StageAfter("repo"), <<>>, done)
          [] at = "code_gate" ->
                IF ~IncludeCode THEN MultiRun(StageAfter("code"), <<>>, done)
                ELSE IF RemoteFails("get_items") THEN Fail(<<Remote("get_items")>>)
                ELSE MultiRun("code", get_items, Append(done, Remote("get_items")))
          [] at = "code" ->
                IF s.taken = <<>> THEN MultiRun(StageAfter("code"), <<>>, done)
                ELSE IF bad # {} THEN Fail([i \in DOMAIN got |-> Remote("get_item")])
                ELSE Suspend("code",
                        [i \in DOMAIN s.taken |->
                            multi_convert_code_to_document(Repository.id,
                                get_item(s.taken[i]), BaseUrl, cfg.project_name)],
                        [i \in DOMAIN s.taken |-> Remote("get_item")])
          [] at = "pr_gate" ->
                IF ~IncludePrs THEN MultiRun(StageAfter("prs"), <<>>, done)
                ELSE IF RemoteFails("get_pull_requests_by_project")
                THEN Fail(<< Remote("get_git_client"), Remote("get_repository"),
                             Remote("get_pull_requests_by_project") >>)
                ELSE MultiRun("prs", [i \in 1..world.nprs |-> PullRequestOf(i)],
                        done \o << Remote("get_git_client"), Remote("get_repository"),
                                   Remote("get_pull_requests_by_project") >>)
          [] at = "prs" ->
                IF s.taken = <<>> THEN MultiRun(StageAfter("prs"), <<>>, done)
                ELSE Suspend("prs",
                        [i \in DOMAIN s.taken |->
                            multi_convert_pull_request_to_document(s.taken[i])],
                        <<>>)
          [] at = "wi_gate" ->
                IF IncludeWorkitems
                THEN LET work_item_ids == query_by_wiql(MultiQuery)
                     IN  IF RemoteFails("query_by_wiql")
                         THEN Fail(<< Remote("get_work_item_tracking_client"),
                                      WiqlCall(MultiQuery) >>)
                         ELSE
                         MultiRun("workitems", get_work_items(work_item_ids),
                            done \o << Remote("get_work_item_tracking_client"),
                                       WiqlCall(MultiQuery) >>
                                 \o FetchCalls(work_item_ids))
                ELSE [pc |-> "done", raised |-> None, io |-> done, yielded |-> <<>>,
                      it |-> <<>>]
          [] at = "workitems" ->
                LET c == ConvertAll([i \in DOMAIN s.taken |->
                                        multi_convert_workitem_to_document(s.taken[i])])
                IN  IF s.taken = <<>>
                    THEN [pc |-> "done", raised |-> None, io |-> done, yielded |-> <<>>,
                          it |-> <<>>]
                    ELSE IF c.raised # None
                    THEN [pc |-> "raised", raised |-> c.raised, io |-> done,
                          yielded |-> <<>>, it |-> s.rest]
                    ELSE Suspend("workitems", c.docs, <<>>)

\* first pull of AzureDevopsConnector._fetch_from_azuredevops: up to the yield
\* of the repository Document
MultiStart ==
    /\ conn = Multi
    /\ pc = "start"
    /\ IF azdo_client = None THEN RaiseMissingCredential
       ELSE /\ io' = io \o <<Remote("get_git_client"), Remote("get_repository")>>
            /\ out' = Append(out, PyDocument(multi_convert_repo_to_document(Repository)))
            /\ frame' = [it |-> <<>>]
            /\ pc' = "repo"
            /\ UNCHANGED <<batcher, conn, cfg, azdo_client, world, checkout, call, raised>>

\* a later pull
MultiResume ==
    /\ conn = Multi
    /\ pc \in {"repo", "code", "prs", "workitems"}
    /\ LET r == MultiRun(pc, frame.it, <<>>)
       IN  /\ io' = io \o r.io
           /\ out' = out \o r.yielded
           /\ frame' = [it |-> r.it]
           /\ pc' = r.pc
           /\ raised' = r.raised
    /\ UNCHANGED <<batcher, conn, cfg, azdo_client, world, checkout, call>>

Next ==
    \/ load_credentials
    \/ load_from_state
    \/ poll_source
    \/ CodebaseStart
    \/ CodeStart
    \/ FilesResume
    \/ ManagementStart
    \/ ManagementResume
    \/ MultiStart
    \/ MultiResume

Spec == Init /\ [][Next]_vars

(***************************************************************************)
(* What an invocation has emitted                                          *)
(***************************************************************************)
\* the Documents handed over so far, in order, in a batch or bare
EmittedDocs ==
    Flatten([i \in DOMAIN out |->
                IF out[i].t = "list" THEN out[i].items ELSE <<out[i].doc>>])

EmittedIds == {EmittedDocs[i].id : i \in DOMAIN EmittedDocs}

\* the ids of the code file Documents emitted by a code file connector
EmittedCodeIds ==
    {EmittedDocs[i].id : i \in {j \in DOMAIN EmittedDocs :
                                    EmittedDocs[j].metadata.type = "CodeFile"}}

\* the ids the code file Documents of these files of the working copy have
CodeIdsOf(file_list) ==
    {convert_code_to_document("any", Repository.id, RepoUrl, cfg.repo_name,
        FileContent(file_list[i]), RemovePrefix(file_list[i], RepoPath)).id :
            i \in DOMAIN file_list}

\* the allow-listed files of the working copy
AllowListed == get_repo_files_list(RepoPath, RepoFiles(world), cfg.extensions)

\* a time strictly inside the window of the call or, when not strict, inside
\* it or on one of its ends
InWindow(time, strict) ==
    IF strict THEN call.start.num < time /\ time < call.end.num
    ELSE call.start.num <= time /\ time <= call.end.num

\* the allow-listed files whose last commit is in the window of the call
AllowListedTouched(strict) ==
    get_repo_files_list(RepoPath,
        SelectSeq(RepoFiles(world), LAMBDA f : InWindow(f.commit, strict)),
        cfg.extensions)

Finished == pc \in {"done", "raised"}

Authenticated == azdo_client # None

FirstSync == Subprocess("git clone") \in Range(io)

\* the ids of the work item Documents emitted
EmittedWorkItemIds ==
    EmittedIds \cap {WorkItemUrl(WorkItemOf(i)) : i \in 1..world.nitems}

\* the queries sent to the server
WiqlCalls == SelectSeq(io, LAMBDA e : e.op = "query_by_wiql")

(***************************************************************************)
(* Claims                                                                  *)
(***************************************************************************)
\* C2: on a connector load_credentials was never called on, a pull of the
\* sequence load_from_state or poll_source returned raises
\* ConnectorMissingCredentialError with no remote call, no git subprocess and
\* no filesystem operation made, and nothing emitted
C2_MissingCredentialFirst ==
    (~Authenticated /\ pc \notin {"idle", "start"}) =>
        /\ raised = "ConnectorMissingCredentialError"
        /\ pc = "raised"
        /\ io = <<>>
        /\ out = <<>>

C2_Witness ==
    /\ ~Authenticated
    /\ call.op = "poll_source"
    /\ conn = Codebase
    /\ raised = "ConnectorMissingCredentialError"

\* C3: every element of the output sequence is a list of Documents, never a
\* bare Document
C3_OnlyBatches ==
    \A i \in DOMAIN out : out[i].t = "list"

\* C4: no batch handed over is empty
C4_NoEmptyBatch ==
    \A i \in DOMAIN out : out[i].t = "list" => out[i].items # <<>>

\* an invocation that found no pull request and some code has returned, having
\* emitted batches
C4_Witness ==
    /\ conn = Multi
    /\ pc = "done"
    /\ cfg.include_prs
    /\ world.nprs = 0
    /\ \E i \in DOMAIN out : out[i].t = "list"

\* C5: load_from_state on a code file connector ends without an exception,
\* having emitted a Document for every allow-listed file of the working copy,
\* whether the checkout existed or not
C5_FullLoadEmitsAll ==
    (conn \in FileConnectors /\ Authenticated /\ Finished
        /\ call.op = "load_from_state") =>
            /\ raised = None
            /\ EmittedCodeIds = CodeIdsOf(AllowListed)

\* C6: poll_source on a code file connector whose checkout did not exist emits
\* every allow-listed file, whatever start and end are
C6_FirstSyncIsFullLoad ==
    (conn \in FileConnectors /\ Authenticated /\ pc = "done"
        /\ call.op = "poll_source" /\ FirstSync) =>
            EmittedCodeIds = CodeIdsOf(AllowListed)

\* C7: poll_source on a code file connector whose checkout existed emits the
\* allow-listed files a commit of the window touched, and no other file:
\* every file committed strictly inside (start, end) is emitted, and every
\* file emitted was committed inside the window or on one of its ends
C7_PollEmitsTouched ==
    (conn \in FileConnectors /\ Authenticated /\ pc = "done"
        /\ call.op = "poll_source" /\ ~FirstSync) =>
            /\ CodeIdsOf(AllowListedTouched(TRUE)) \subseteq EmittedCodeIds
            /\ EmittedCodeIds \subseteq CodeIdsOf(AllowListedTouched(FALSE))

\* the ids of the Documents of the work items changed in the window of the call
\* that the state filter of the connector, when it has one, admits
WorkItemIdsChanged(strict) ==
    {WorkItemUrl(WorkItemOf(i)) : i \in {j \in 1..world.nitems :
        /\ InWindow(ChangedSecs(WorkItemOf(j)), strict)
        /\ conn = Management => StateMatches(WorkItemOf(j), QueryState)}}

\* C8: poll_source on a work item connector emits the work items changed within
\* (start, end), and only those: every work item changed strictly inside the
\* window is emitted, and every one emitted changed inside it or on its ends
C8_PollEmitsWindow ==
    (conn \in {Management, Multi} /\ Authenticated /\ Finished
        /\ call.op = "poll_source"
        /\ (conn = Multi => cfg.include_workitems)) =>
            /\ WorkItemIdsChanged(TRUE) \subseteq EmittedWorkItemIds
            /\ EmittedWorkItemIds \subseteq WorkItemIdsChanged(FALSE)

\* C9: load_from_state on the work item connector asks for the work items
\* changed after today - number_days, and without a number_days it emits every
\* work item the state filter admits
C9_FullLoadWindow ==
    (conn = Management /\ Authenticated /\ pc = "done"
        /\ call.op = "load_from_state") =>
            /\ Len(WiqlCalls) = 1
            /\ IF IsNone(cfg.number_days)
               THEN EmittedWorkItemIds =
                        {WorkItemUrl(WorkItemOf(i)) : i \in {j \in 1..world.nitems :
                            StateMatches(WorkItemOf(j), QueryState)}}
               ELSE WiqlCalls[1].query.changed_after_today_minus
                        = PyInt(cfg.number_days.v)

\* C10: the day offset poll_source places in the query is a whole number of
\* days, not negative
C10_WholeDays ==
    (conn = Management /\ call.op = "poll_source") =>
        \A k \in DOMAIN WiqlCalls :
            LET x == WiqlCalls[k].query.changed_after_today_minus
            IN  IF x.t = "int" THEN x.v >= 0
                ELSE x.num % x.den = 0 /\ x.num >= 0

(***************************************************************************)
(* Kinds of the Documents emitted                                          *)
(***************************************************************************)
WorkItemUrls == {WorkItemUrl(WorkItemOf(i)) : i \in 1..world.nitems}

PullRequestUrls == {PullRequestOf(i).url : i \in 1..world.nprs}

\* the entity kind a Document was normalized from
KindOf(doc) ==
    IF doc.id \in WorkItemUrls THEN "workitem"
    ELSE IF doc.id \in PullRequestUrls THEN "pr"
    ELSE IF doc.metadata.type = "CodeFile" THEN "code"
    ELSE "repo"

EmittedOfKind(kind) == {i \in DOMAIN EmittedDocs : KindOf(EmittedDocs[i]) = kind}

\* the calls of this invocation that fetch or query the given kind
CallsFor(kind) ==
    LET ops == CASE kind = "code" -> {"get_items", "get_item"}
                 [] kind = "pr" -> {"get_pull_requests_by_project"}
                 [] kind = "workitem" -> {"get_work_item_tracking_client",
                                          "query_by_wiql", "get_work_items"}
    IN  {i \in DOMAIN io : io[i].op \in ops}

\* nothing fetched, nothing queried and nothing emitted for the kind
Silent(kind) == CallsFor(kind) = {} /\ EmittedOfKind(kind) = {}

\* C11: each of include_code_files, include_prs and include_workitems, when
\* false, leaves its kind without a fetch, without a query and without a
\* Document, in load_from_state and in poll_source
C11_DisabledKindSilent ==
    conn = Multi =>
        /\ ~cfg.include_code_files => Silent("code")
        /\ ~cfg.include_prs => Silent("pr")
        /\ ~cfg.include_workitems => Silent("workitem")

\* C12: with include_workitems false, poll_source makes no work item query and
\* emits no work item, and once it has returned the items of the repository
\* and, with include_prs, the pull requests have all been emitted
C12_DisabledWorkItems ==
    (conn = Multi /\ Authenticated /\ call.op = "poll_source"
        /\ ~cfg.include_workitems) =>
            /\ Silent("workitem")
            /\ raised = None
            /\ pc = "done" =>
                  /\ Cardinality(EmittedOfKind("code")) = Len(get_items)
                  /\ cfg.include_prs =>
                        {EmittedDocs[i].id : i \in EmittedOfKind("pr")} = PullRequestUrls

C12_Witness ==
    /\ conn = Multi /\ Authenticated /\ call.op = "poll_source"
    /\ ~cfg.include_workitems /\ cfg.include_prs
    /\ world.nitems > 0 /\ world.nprs = MaxPRs /\ world.nfiles > 0
    /\ pc = "done"
    /\ Cardinality(EmittedOfKind("pr")) = MaxPRs

\* repository and code first, then pull requests, then work items
KindRank(kind) ==
    CASE kind \in {"repo", "code"} -> 1
      [] kind = "pr" -> 2
      [] kind = "workitem" -> 3

\* C13: in an invocation of AzureDevopsConnector no Document of an earlier
\* kind is handed over after one of a later kind: repository and code, then
\* pull requests, then work items
C13_KindOrder ==
    conn = Multi =>
        \A i, j \in DOMAIN EmittedDocs :
            i < j => KindRank(KindOf(EmittedDocs[i])) <= KindRank(KindOf(EmittedDocs[j]))

C13_Witness ==
    /\ conn = Multi
    /\ pc = "done"
    /\ EmittedOfKind("code") # {}
    /\ EmittedOfKind("pr") # {}

\* the paths of the allow-listed files relative to the root of the checkout
AllowListedRelative ==
    [k \in DOMAIN AllowListed |-> RemovePrefix(AllowListed[k], RepoPath \o <<"/">>)]

\* C14: load_from_state on a fresh checkout of 3 allow-listed files with
\* batch_size 2 yields a batch of two Documents and a batch of one, in the
\* order of the walk; each id is <repo id>:<repo url>:<relative path> and each
\* semantic_identifier is <repo name>/<relative path>
C14_EndToEnd ==
    (conn = Codebase /\ Authenticated /\ call.op = "load_from_state" /\ FirstSync
        /\ pc = "done" /\ Len(AllowListed) = 3 /\ cfg.batch_size = 2) =>
            /\ Len(out) = 2
            /\ \A b \in DOMAIN out : out[b].t = "list"
            /\ Len(out[1].items) = 2
            /\ Len(out[2].items) = 1
            /\ \A k \in DOMAIN EmittedDocs :
                  /\ EmittedDocs[k].id =
                        Repository.id \o <<":">> \o RepoUrl \o <<":">> \o AllowListedRelative[k]
                  /\ EmittedDocs[k].semantic_identifier =
                        cfg.repo_name \o <<"/">> \o AllowListedRelative[k]

(***************************************************************************)
(* The normalizers alone: one entity, normalized again and again, edited   *)
(* in between                                                              *)
(***************************************************************************)
\* System.CreatedBy as the server may hand it over: an identity, no field at
\* all, a null, or an identity object with nothing in it
CreatorShapes == {"present", "absent", "null", "empty"}

\* the work item with its System.CreatedBy in the given shape
WorkItemWithCreator(w, shape) ==
    CASE shape = "present" -> w
      [] shape = "absent" ->
            [w EXCEPT !.fields = [k \in DOMAIN w.fields \ {"System.CreatedBy"} |->
                                        w.fields[k]]]
      [] shape = "null" -> [w EXCEPT !.fields["System.CreatedBy"] = PyNone]
      [] shape = "empty" -> [w EXCEPT !.fields["System.CreatedBy"] = [t |-> "dict"]]

\* the entity after so many edits of its content (a file) or of its
\* description (a work item)
Edited(e) ==
    IF e.kind = "file"
    THEN FileContent(AbsPath(FileOf(e.i))) \o [k \in 1..e.edits |-> "edited"]
    ELSE LET w == WorkItemWithCreator(WorkItemWithDate(e.i, e.date), e.creator)
         IN  IF e.edits = 0 THEN w
             ELSE [w EXCEPT !.fields["System.Description"] =
                                PyStr(<<"edited", ToString(e.edits)>>)]

Entities(c, w) ==
    IF c \in FileConnectors
    THEN {[kind |-> "file", i |-> i, edits |-> 0] : i \in 1..w.nfiles}
    ELSE {[kind |-> "workitem", i |-> i, date |-> d, creator |-> by, edits |-> 0] :
            i \in 1..w.nitems, d \in DateShapes, by \in CreatorShapes}

\* the normalizer of the connector applied to the entity
NormalizeEntity(e) ==
    IF e.kind = "file"
    THEN [raised |-> None,
          doc |-> convert_code_to_document(
                    IF conn = Code THEN "AZUREDEVOPSCODE" ELSE "AZUREDEVOPSCODEBASE",
                    Repository.id, RepoUrl, cfg.repo_name, Edited(e),
                    RemovePrefix(AbsPath(FileOf(e.i)), RepoPath))]
    ELSE management_convert_workitem_to_document(Edited(e))

InitNormalize ==
    /\ batcher = BatcherIdle
    /\ conn \in {Codebase, Code, Management}
    /\ cfg \in Configs(conn)
    /\ world \in Worlds(conn)
    /\ checkout = FALSE
    /\ azdo_client = "Connection"
    /\ call = [op |-> "none"]
    /\ pc = "normalize"
    /\ frame \in Entities(conn, world)
    /\ out = <<>>
    /\ io = <<>>
    /\ raised = None

\* one call of the normalizer: the Document it returns, or its exception
Normalize ==
    /\ pc = "normalize"
    /\ Len(out) < MaxRuns
    /\ LET r == NormalizeEntity(frame)
       IN  IF r.raised # None
           THEN /\ raised' = r.raised
                /\ pc' = "raised"
                /\ out' = out
           ELSE /\ out' = Append(out, PyDocument(r.doc))
                /\ UNCHANGED <<pc, raised>>
    /\ UNCHANGED <<batcher, conn, cfg, azdo_client, world, checkout, call, frame, io>>

\* the content of the file, or the description of the work item, changes
EditEntity ==
    /\ pc = "normalize"
    /\ frame.edits < MaxEdits
    /\ frame' = [frame EXCEPT !.edits = @ + 1]
    /\ UNCHANGED <<batcher, conn, cfg, azdo_client, world, checkout, call, pc, out, io, raised>>

NextNormalize == Normalize \/ EditEntity

SpecNormalize == InitNormalize /\ [][NextNormalize]_vars

\* C15: the Documents the normalizer returns for one entity, normalized
\* several times, its content edited or not in between, all have the same id
\* and the same set of metadata keys
C15_StableId ==
    pc \in {"normalize", "raised"} =>
        \A i, j \in DOMAIN out :
            /\ out[i].doc.id = out[j].doc.id
            /\ DOMAIN out[i].doc.metadata = DOMAIN out[j].doc.metadata

\* a file normalized before and after an edit of its content
C15_Witness ==
    /\ pc = "normalize"
    /\ frame.kind = "file"
    /\ Len(out) = 2
    /\ out[1].doc.sections # out[2].doc.sections

\* C16: the Documents handed over in one invocation have pairwise distinct
\* ids, the repository Document built from the README and the Document of
\* the README file included
C16_DistinctIds ==
    \A i, j \in DOMAIN EmittedDocs :
        i # j => EmittedDocs[i].id # EmittedDocs[j].id

\* AzureDevopsCodeConnector has returned, having emitted the repository
\* Document, the README and another file
C16_Witness ==
    /\ conn = Code
    /\ pc = "done"
    /\ \E i \in DOMAIN EmittedDocs :
          EndsWith(EmittedDocs[i].id, <<"README", ".", "md">>)
    /\ Len(EmittedDocs) >= 3

\* C17: every Document handed over has a non-empty id and a
\* semantic_identifier that is neither None nor empty
C17_NonEmptyIdentifiers ==
    \A k \in DOMAIN EmittedDocs :
        LET d == EmittedDocs[k]
        IN  /\ d.id # <<>>
            /\ IF KindOf(d) = "pr"
               THEN ~IsNone(d.semantic_identifier) /\ d.semantic_identifier.s # <<>>
               ELSE d.semantic_identifier # <<>>

\* the work items the Document was normalized from
WorkItemsOfDoc(d) == {i \in 1..world.nitems : WorkItemUrl(WorkItemOf(i)) = d.id}

\* C18: the metadata of a work item Document has a key exactly for each field
\* the work item gave a value for, no key maps to None, and a work item
\* without System.AssignedTo has no assigned_to key
C18_MetadataOmission ==
    conn = Management =>
        \A k \in DOMAIN EmittedDocs : \A i \in WorkItemsOfDoc(EmittedDocs[k]) :
            LET fields == WorkItemOf(i).fields
                metadata == EmittedDocs[k].metadata
            IN  /\ DOMAIN metadata =
                      {key \in DOMAIN MetadataKeys :
                          ~IsNone(FieldsGet(fields, MetadataKeys[key]))}
                /\ \A key \in DOMAIN metadata : ~IsNone(metadata[key])
                /\ "System.AssignedTo" \notin DOMAIN fields =>
                      "assigned_to" \notin DOMAIN metadata

\* a work item without System.AssignedTo and one with it have been emitted
C18_Witness ==
    /\ conn = Management
    /\ \E k \in DOMAIN EmittedDocs : \E i \in WorkItemsOfDoc(EmittedDocs[k]) :
          "System.AssignedTo" \notin DOMAIN WorkItemOf(i).fields
    /\ \E k \in DOMAIN EmittedDocs : "assigned_to" \in DOMAIN EmittedDocs[k].metadata

\* C19: the updated-at of a work item Document is the instant of its
\* System.ChangedDate in whole seconds, whether the timestamp was written with
\* fractional seconds or without
C19_TruncatedToSeconds ==
    conn = Management =>
        \A k \in DOMAIN EmittedDocs : \A i \in WorkItemsOfDoc(EmittedDocs[k]) :
            EmittedDocs[k].doc_updated_at =
                [secs |-> ChangedSecs(WorkItemOf(i)), microsecond |-> 0, tzinfo |-> "utc"]

\* C20: normalizing a work item whose System.ChangedDate is in neither known
\* format, or absent, returns no Document and fails with the ValueError
\* "does not match known formats"
C20_MalformedTimestamp ==
    (pc \in {"normalize", "raised"} /\ frame.kind = "workitem"
        /\ frame.date \in {"other", "absent"}) =>
            /\ out = <<>>
            /\ pc = "raised" => raised = "ValueError"

\* C24: normalizing a work item whose System.CreatedBy is absent, null or an
\* empty object raises nothing and returns a Document with no owner
C24_NoOwnerNoError ==
    (pc \in {"normalize", "raised"} /\ frame.kind = "workitem"
        /\ frame.creator # "present" /\ frame.date \in {"plain", "fractional"}) =>
            /\ raised = None
            /\ \A k \in DOMAIN out : out[k].doc.primary_owners = <<>>

\* the git log filter of the window was applied in this invocation
Windowed == Subprocess("git log") \in Range(io)

RECURSIVE ContentFetches(_)
\* the entities whose full content the calls fetched: a file opened, an item
\* got with its content, each id of a get_work_items call
ContentFetches(calls) ==
    IF calls = <<>> THEN 0
    ELSE (CASE Head(calls).op = "open" -> 1
            [] Head(calls).op = "get_item" -> 1
            [] Head(calls).op = "get_work_items" -> Len(Head(calls).ids)
            [] OTHER -> 0)
         + ContentFetches(Tail(calls))

\* the README opened for the repository Document, handed over with it
ReadmeDelivered ==
    Cardinality({k \in EmittedOfKind("repo") :
                    conn = Code /\ EmittedDocs[k].sections[1].text # <<>>})

\* entities fetched with their content and not yet handed to the consumer
InFlight ==
    ContentFetches(io) - ReadmeDelivered
        - Cardinality(EmittedOfKind("code")) - Cardinality(EmittedOfKind("workitem"))

\* C26: at every point of an invocation at most batch_size entities have been
\* fetched with their content and not yet handed to the consumer
C26_BoundedInFlight ==
    (conn \in Connectors /\ pc \notin {"idle", "start"} /\ Authenticated) =>
        InFlight <= cfg.batch_size

(***************************************************************************)
(* The work item segments over a query that finds more ids than one fetch  *)
(* call may carry                                                          *)
(***************************************************************************)
\* batch_size as configured: small, at the cap of a fetch call, above it
FetchSizes == {1, FetchCap, FetchCap + 1}

InitFetch ==
    /\ batcher = BatcherIdle
    /\ conn \in {Management, Multi}
    /\ cfg \in (IF conn = Management
                THEN {[project_name |-> ProjectName, number_days |-> NumStr(MaxDays),
                       state_filter |-> <<>>, batch_size |-> b] : b \in FetchSizes}
                ELSE {[project_name |-> ProjectName, repo_name |-> RepoName,
                       batch_size |-> b, state_filter |-> <<"all">>,
                       include_prs |-> FALSE, include_workitems |-> TRUE,
                       include_code_files |-> FALSE] : b \in FetchSizes})
    /\ world = [nfiles |-> 0, nprs |-> 0, nitems |-> 2 * FetchCap, fault |-> NoFault]
    /\ checkout = FALSE
    /\ azdo_client = "Connection"
    /\ call = [op |-> "load_from_state", start |-> PyNone, end |-> PyNone]
    /\ pc = "start"
    /\ frame = None
    /\ out = <<>>
    /\ io = <<>>
    /\ raised = None

NextFetch == ManagementStart \/ ManagementResume \/ MultiStart \/ MultiResume

SpecFetch == InitFetch /\ [][NextFetch]_vars

\* C27: no get_work_items call is passed more than 200 ids
C27_FetchCap ==
    \A k \in DOMAIN io :
        io[k].op = "get_work_items" => Len(io[k].ids) <= FetchCap

(***************************************************************************)
(* Invocations in which a call fails                                       *)
(***************************************************************************)
\* the faults an invocation of the connector can meet in the world
Faults(c, w) ==
    {NoFault} \cup
    CASE c \in FileConnectors ->
            {Fault("git", "sync", 0), Fault("git", "git log", 0)}
            \cup {Fault("open", "", i) : i \in 1..w.nfiles}
      [] c = Management ->
            {Fault("remote", "query_by_wiql", 0)}
            \cup {Fault("remote", "get_work_items", i) : i \in 1..2}
            \cup {Fault("timestamp", "", i) : i \in 1..w.nitems}
            \cup {Fault("omitted", "", i) : i \in 1..w.nitems}
      [] c = Multi ->
            {Fault("remote", "get_items", 0),
             Fault("remote", "get_pull_requests_by_project", 0),
             Fault("remote", "query_by_wiql", 0)}
            \cup {Fault("get_item", "", i) : i \in 1..w.nfiles + 1}

\* the worlds with the most entities
Biggest(c) ==
    {w \in Worlds(c) : \A x \in Worlds(c) :
        x.nfiles + x.nprs + x.nitems <= w.nfiles + w.nprs + w.nitems}

InitFault ==
    /\ batcher = BatcherIdle
    /\ conn \in Connectors
    /\ cfg \in Configs(conn)
    /\ world \in UNION {{[w EXCEPT !.fault = f] : f \in Faults(conn, w)} :
                            w \in Biggest(conn)}
    /\ checkout \in (IF conn \in FileConnectors THEN BOOLEAN ELSE {FALSE})
    /\ azdo_client = None
    /\ call = [op |-> "none"]
    /\ pc = "idle"
    /\ frame = None
    /\ out = <<>>
    /\ io = <<>>
    /\ raised = None

SpecFault == InitFault /\ [][Next]_vars

\* C21: a file that cannot be opened, or a work item whose timestamp is
\* malformed, is skipped: the invocation ends without an exception and every
\* other entity of the listing has been emitted
C21_SkipAndContinue ==
    /\ (conn = Codebase /\ Authenticated /\ Finished /\ ~Windowed
            /\ world.fault.kind = "open") =>
                /\ raised = None
                /\ EmittedCodeIds =
                      CodeIdsOf(AllowListed) \ CodeIdsOf(<<AbsPath(FileOf(world.fault.i))>>)
    /\ (conn = Management /\ Authenticated /\ Finished
            /\ world.fault.kind = "timestamp") =>
                /\ raised = None
                /\ EmittedWorkItemIds =
                      {WorkItemUrl(WorkItemOf(i)) :
                          i \in Range(query_by_wiql(ManagementQuery)) \ {world.fault.i}}

\* C22: in AzureDevopsConnector a failed listing, item fetch or pull request
\* query does not leave the invocation as an exception, and the later enabled
\* kinds still run: the pull requests are emitted, the work items are queried
C22_SegmentLocalFailure ==
    (conn = Multi /\ Authenticated /\ Finished
        /\ world.fault.kind \in {"remote", "get_item"}
        /\ world.fault.op # "query_by_wiql") =>
            /\ raised # "AzureDevOpsServiceError"
            /\ (cfg.include_prs /\ world.fault.op # "get_pull_requests_by_project") =>
                  {EmittedDocs[i].id : i \in EmittedOfKind("pr")} = PullRequestUrls
            /\ cfg.include_workitems => CallsFor("workitem") # {}

\* the batches the batcher makes of the Documents
BatchesOf(docs) ==
    LET batches == batch_azuredevops_objects(docs, cfg.batch_size)
    IN  [b \in DOMAIN batches |-> PyList(batches[b])]

\* the first position of the sequence that holds one of the values, 0 if none
FirstOf(seq, values) ==
    LET hits == {p \in DOMAIN seq : seq[p] \in values}
    IN  IF hits = {} THEN 0 ELSE CHOOSE p \in hits : \A q \in hits : p <= q

\* the entities of the batches complete before the entity at position p fails
BeforeBatchOf(seq, p) == Take(seq, cfg.batch_size * ((p - 1) \div cfg.batch_size))

\* what AzureDevopsCodebaseConnector has completed when it fails
CodebaseCompleted ==
    LET file_list == IF Windowed THEN ChangedOnly(AllowListed) ELSE AllowListed
        p == FirstOf(file_list, {f \in Range(file_list) : Unreadable(f)})
        done == IF raised = "OSError" THEN BeforeBatchOf(file_list, p) ELSE <<>>
    IN  BatchesOf([k \in DOMAIN done |->
            convert_code_to_document("AZUREDEVOPSCODEBASE", Repository.id, RepoUrl,
                cfg.repo_name, FileContent(done[k]), RemovePrefix(done[k], RepoPath))])

\* what AzureDevopsManagementConnector has completed when it fails
ManagementCompleted ==
    LET ids == query_by_wiql(ManagementQuery)
        done == CASE world.fault.kind = "timestamp" ->
                        BeforeBatchOf(ids, FirstOf(ids, {world.fault.i}))
                  [] world.fault.op = "get_work_items" ->
                        Take(ids, cfg.batch_size * (world.fault.i - 1))
                  [] OTHER -> <<>>
    IN  BatchesOf([k \in DOMAIN done |->
            management_convert_workitem_to_document(WorkItemOf(done[k])).doc])

\* what AzureDevopsConnector has completed when it fails
MultiCompleted ==
    LET items == get_items
        CodeDocs(its) ==
            BatchesOf([k \in DOMAIN its |->
                multi_convert_code_to_document(Repository.id, get_item(its[k]),
                    BaseUrl, cfg.project_name)])
        PrDocs ==
            IF cfg.include_prs
            THEN BatchesOf([i \in 1..world.nprs |->
                    multi_convert_pull_request_to_document(PullRequestOf(i))])
            ELSE <<>>
    IN  <<PyDocument(multi_convert_repo_to_document(Repository))>>
        \o (CASE world.fault.op = "get_items" -> <<>>
              [] world.fault.kind = "get_item" ->
                    CodeDocs(BeforeBatchOf(items, FirstOf(items, {items[world.fault.i]})))
              [] world.fault.op = "get_pull_requests_by_project" /\ cfg.include_prs ->
                    CodeDocs(items)
              [] OTHER -> CodeDocs(items) \o PrDocs)

\* C23: when an invocation has ended with an exception, the batches complete
\* before the failure have all been handed over, in order
C23_CompletedDelivered ==
    (Authenticated /\ pc = "raised") =>
        CASE conn = Codebase -> out = CodebaseCompleted
          [] conn = Management -> out = ManagementCompleted
          [] conn = Multi -> out = MultiCompleted
          [] OTHER -> TRUE

\* a file of a later batch could not be opened, after a batch was handed over
C23_Witness ==
    /\ conn = Codebase
    /\ raised = "OSError"
    /\ out # <<>>

\* the positions of the calls of the invocation that ran one of the operations
CallsOf(ops) == {p \in DOMAIN io : io[p].op \in ops}

\* C28: an invocation of a code file connector that has begun its sync has
\* checked the checkout path once and run exactly one of clone and pull, clone
\* if and only if the path did not exist; git log runs after it, every file
\* is opened after both, and after a non-zero exit nothing has been emitted
C28_SyncBeforeRead ==
    (conn \in FileConnectors /\ io # <<>>) =>
        LET checks == CallsOf({"exists"})
            syncs == CallsOf({"git clone", "git pull"})
            logs == CallsOf({"git log"})
            reads == CallsOf({"open"})
        IN  /\ Cardinality(checks) = 1
            /\ Cardinality(syncs) = 1
            /\ \A x \in checks, s \in syncs :
                  /\ x < s
                  /\ (io[s].op = "git clone") <=> ~io[x].result
            /\ Cardinality(logs) <= 1
            /\ \A s \in syncs, l \in logs : s < l
            /\ \A r \in reads : \A b \in syncs \cup logs : b < r
            /\ raised = "CalledProcessError" => (out = <<>> /\ reads = {})

\* git log exited non-zero after the pull of an existing checkout
C28_Witness ==
    /\ conn \in FileConnectors
    /\ raised = "CalledProcessError"
    /\ CallsOf({"git pull", "git log"}) # {}
    /\ Windowed

\* C30: the batches a finished invocation of the work item connector emitted
\* are the batches the batcher makes, with the same size, of all the work
\* items the fetches returned, in id order, also when a fetch returns fewer
\* work items than it was given ids
C30_TwoLevelIsOneLevel ==
    (conn = Management /\ Authenticated /\ pc = "done") =>
        LET fetched == get_work_items(query_by_wiql(ManagementQuery))
        IN  out = BatchesOf([k \in DOMAIN fetched |->
                    management_convert_workitem_to_document(fetched[k]).doc])

(***************************************************************************)
(* Two invocations of a code file connector on one machine: two connector  *)
(* objects, each with its repo_name, run _fetch_from_azuredevops at the    *)
(* same time. frame holds the position and the locals of each, checkout    *)
(* what os.path.exists answers for each path under the destination, io the *)
(* git commands run.                                                       *)
(***************************************************************************)
Workers == {1, 2}

RepoNameArgs == {RepoName, <<"other">>}

\* repo_path = os.path.join(destination, repo_name)
RepoPathOf(repo_name) == Destination \o <<"/">> \o repo_name

InitShared ==
    /\ batcher = BatcherIdle
    /\ conn \in FileConnectors
    /\ cfg \in Configs(conn)
    /\ world \in Worlds(conn)
    /\ checkout \in [{RepoPathOf(n) : n \in RepoNameArgs} -> BOOLEAN]
    /\ azdo_client = "Connection"
    /\ call = [op |-> "load_from_state", start |-> PyNone, end |-> PyNone]
    /\ pc = "start"
    /\ frame \in [Workers -> {[repo_name |-> n, pc |-> "start", saw |-> "unchecked",
                                ran |-> "", left |-> 0] : n \in RepoNameArgs}]
    /\ out = <<>>
    /\ io = <<>>
    /\ raised = None

SharedStep(k, locals, path_exists, calls) ==
    /\ frame' = [frame EXCEPT ![k] = locals]
    /\ checkout' = [checkout EXCEPT ![RepoPathOf(frame[k].repo_name)] = path_exists]
    /\ io' = io \o calls
    /\ UNCHANGED <<batcher, conn, cfg, azdo_client, world, call, pc, out, raised>>

\* os.makedirs(destination, exist_ok=True) and the test os.path.exists(repo_path)
SharedExists ==
    \E k \in Workers :
        LET repo_path == RepoPathOf(frame[k].repo_name)
        IN  /\ frame[k].pc = "start"
            /\ SharedStep(k, [frame[k] EXCEPT !.pc = "checked",
                                  !.saw = IF checkout[repo_path] THEN "present"
                                          ELSE "absent"],
                          checkout[repo_path], <<>>)

\* git clone or git pull is started, in the branch the test chose; git clone
\* exits non-zero when the path has come to exist since
SharedSyncBegins ==
    \E k \in Workers :
        LET repo_path == RepoPathOf(frame[k].repo_name)
            command == IF frame[k].saw = "absent" THEN "git clone" ELSE "git pull"
            failed == command = "git clone" /\ checkout[repo_path]
        IN  /\ frame[k].pc = "checked"
            /\ SharedStep(k, [frame[k] EXCEPT !.pc = IF failed THEN "raised" ELSE "syncing",
                                  !.ran = command],
                          TRUE, <<[kind |-> "subprocess", op |-> command, worker |-> k]>>)

\* subprocess.run returns: the clone or pull is over
SharedSyncEnds ==
    \E k \in Workers :
        /\ frame[k].pc = "syncing"
        /\ SharedStep(k, [frame[k] EXCEPT !.pc = "synced"], TRUE, <<>>)

\* get_repo_files_list walks the working copy
SharedWalk ==
    \E k \in Workers :
        LET repo_path == RepoPathOf(frame[k].repo_name)
            file_list == get_repo_files_list(repo_path, RepoFiles(world), cfg.extensions)
        IN  /\ frame[k].pc = "synced"
            /\ SharedStep(k, [frame[k] EXCEPT !.pc = "reading", !.left = Len(file_list)],
                          TRUE, <<>>)

\* process_files opens the next file of the list
SharedRead ==
    \E k \in Workers :
        /\ frame[k].pc = "reading"
        /\ frame[k].left > 0
        /\ SharedStep(k, [frame[k] EXCEPT !.left = @ - 1], TRUE, <<>>)

\* the list is used up: process_files and the invocation return
SharedReturn ==
    \E k \in Workers :
        /\ frame[k].pc = "reading"
        /\ frame[k].left = 0
        /\ SharedStep(k, [frame[k] EXCEPT !.pc = "done"], TRUE, <<>>)

NextShared ==
    \/ SharedExists
    \/ SharedSyncBegins
    \/ SharedSyncEnds
    \/ SharedWalk
    \/ SharedRead
    \/ SharedReturn

SpecShared == InitShared /\ [][NextShared]_vars

\* C29: of two invocations with the same repository name, never have both
\* found the checkout absent and both run git clone, and never is one in its
\* clone or pull while the other is between its clone or pull and the end of
\* its file reads; two with different names have different checkout paths
C29_SingleWriter ==
    \A i \in Workers : \A j \in Workers \ {i} :
        IF frame[i].repo_name = frame[j].repo_name
        THEN /\ ~(/\ frame[i].saw = "absent" /\ frame[i].ran = "git clone"
                  /\ frame[j].saw = "absent" /\ frame[j].ran = "git clone")
             /\ ~(/\ frame[j].pc = "syncing"
                  /\ frame[i].pc \in {"syncing", "synced", "reading"})
        ELSE RepoPathOf(frame[i].repo_name) # RepoPathOf(frame[j].repo_name)

====
